---------------------------- MODULE Spec2Model ----------------------------
(***************************************************************************)
(* A model of the LEV longevity-trajectory engine (src/src/lev_math.ts).   *)
(*                                                                         *)
(* Numbers.  The engine computes with IEEE doubles.  Here every real is a  *)
(* fixed-point integer with six decimal places: the real v is the integer  *)
(* floor(v * ONE), ONE = 10^6.  Years, ages, optimism steps and quantile   *)
(* keys are plain integers, as they are whole numbers in the program.      *)
(* Products and quotients are computed in pieces so that no intermediate   *)
(* value leaves the 32-bit range of the model checker.  Math.exp, Math.log *)
(* and Math.sqrt are computed, not assumed: exp by range reduction and a   *)
(* power series, log by normalisation and the atanh series, sqrt by        *)
(* Newton's iteration.  Every result is exact to a few units of the last   *)
(* place (1e-6); tolerances below are stated in those units.               *)
(***************************************************************************)
EXTENDS Integers, Sequences, FiniteSets, TLC

\* ------------------------------------------------------------------
\* Fixed-point arithmetic (the JS number operations * / exp log sqrt).
\* Each operation is a function applied to its arguments, so that an
\* argument is evaluated once, to a number, before the operation uses it.
\* ------------------------------------------------------------------
ONE == 1000 * 1000

Fx(n) == n * ONE

MaxF[x \in Int, y \in Int] == IF x >= y THEN x ELSE y

Max(x, y) == MaxF[x, y]

MinF[x \in Int, y \in Int] == IF x <= y THEN x ELSE y

Min(x, y) == MinF[x, y]

\* floor(x * y / ONE), exactly, for fixed-point x and y
MulF[x \in Int, y \in Int] ==
    LET xh == x \div 1000
        xl == x % 1000
        yh == y \div 1000
        yl == y % 1000
    IN  xh * yh + ((xh * yl + xl * yh + ((xl * yl) \div 1000)) \div 1000)

Mul(x, y) == MulF[x, y]

\* floor(x * ONE / y), exactly, for fixed-point x and 0 < y < 21 * ONE
DivF[x \in Int, y \in Int] ==
    LET q1 == x \div y
        r1 == x % y
        q2 == (r1 * 100) \div y
        r2 == (r1 * 100) % y
        q3 == (r2 * 100) \div y
        r3 == (r2 * 100) % y
        q4 == (r3 * 100) \div y
    IN  q1 * ONE + q2 * 10000 + q3 * 100 + q4

Div(x, y) == DivF[x, y]

\* Math.exp and Math.log carry two guard digits: inside them a real v is
\* floor(v * HI), HI = 10^8, and the result is rounded to the six places
HI == 100 * ONE

\* x * y / HI rounded to the nearest unit, for 0 <= x, y < 4 HI
MulHi[x \in Int, y \in Int] ==
    LET xh == x \div 10000
        xl == x % 10000
        yh == y \div 10000
        yl == y % 10000
    IN  xh * yh + ((xh * yl + xl * yh + ((xl * yl + 5000) \div 10000) + 5000) \div 10000)

\* floor(x * HI / y) for 0 <= x < y < 2 HI, one decimal digit at a time
DivHiDigits[r \in Int, y \in Int, q \in Int, n \in Int] ==
    IF n = 0 THEN q
    ELSE DivHiDigits[(r * 10) % y, y, q * 10 + ((r * 10) \div y), n - 1]

DivHi[x \in Int, y \in Int] == DivHiDigits[x, y, 0, 8]

\* u + u^3/3 + u^5/5 + ... + u^17/17, for 0 <= u <= HI/3
AtanhSeries[u2 \in Int, pow \in Int, n \in Int] ==
    IF n > 17 THEN 0
    ELSE ((pow + (n \div 2)) \div n) + AtanhSeries[u2, MulHi[pow, u2], n + 2]

Atanh[u \in Int] == AtanhSeries[MulHi[u, u], u, 1]

\* ln 2 = 2 atanh(1/3)
LN2 == 2 * Atanh[(HI + 1) \div 3]

\* 1 + f/1 (1 + f/2 (1 + f/3 ( ... ))), the power series of exp on 0 <= f < ln 2
ExpSeries[f \in Int, i \in Int] ==
    IF i > 12 THEN HI
    ELSE HI + ((MulHi[f, ExpSeries[f, i + 1]] + (i \div 2)) \div i)

\* exp(x): x = k ln 2 + f, exp(x) = 2^k exp(f).  Below -21 the result is
\* under half a unit of the last place and is 0.
ExpF[x \in Int] ==
    IF x < 0 - 21 * ONE THEN 0
    ELSE LET xh == x * 100
             k == xh \div LN2
             y == ExpSeries[xh % LN2, 1]
         IN  IF k >= 4 THEN ((y + 50) \div 100) * (2 ^ k)
             ELSE IF k >= 0 THEN (y * (2 ^ k) + 50) \div 100
             ELSE IF k < -30 THEN 0
             ELSE ((y \div (2 ^ (0 - k))) + 50) \div 100

\* Math.exp
Exp(x) == ExpF[x]

\* x scaled by a power of two into [ONE, 2 ONE): <<mantissa, exponent>>
LnNorm[x \in Int, k \in Int] ==
    IF x < ONE THEN LnNorm[2 * x, k - 1]
    ELSE IF x >= 2 * ONE THEN LnNorm[x \div 2, k + 1]
    ELSE <<x, k>>

\* floor((v + 50) / 100) for either sign: HI places rounded to ONE places
RoundHi(v) == (v + 50) \div 100

\* ln(m 2^k) = 2 atanh((m-1)/(m+1)) + k ln 2, for x > 0
LnF[x \in Int] ==
    LET mk == LnNorm[x, 0]
        m == mk[1] * 100
        k == mk[2]
    IN  RoundHi(2 * Atanh[DivHi[(m - HI) \div 2, (m + HI) \div 2]] + k * LN2)

\* Math.log
Ln(x) == LnF[x]

\* Newton's iteration for the square root, from above
SqrtIter[x \in Int, s \in Int] ==
    IF (s + DivF[x, s]) \div 2 >= s THEN s
    ELSE SqrtIter[x, (s + DivF[x, s]) \div 2]

\* Math.sqrt(x), 0 <= x <= 400 ONE
Sqrt(x) == IF x = 0 THEN 0 ELSE SqrtIter[x, 20 * ONE]

\* 1 / (1 + exp(t)); for t > 0 the quotient is taken as
\* exp(-t) / (1 + exp(-t)), which keeps exp(t) inside the fixed-point range
InvOnePlusExpF[t \in Int] ==
    IF t <= 0 THEN DivF[ONE, ONE + ExpF[t]]
    ELSE DivF[ExpF[0 - t], ONE + ExpF[0 - t]]

InvOnePlusExp(t) == InvOnePlusExpF[t]

\* The decimal literal n/d of the source, e.g. 0.6 = Dec(6, 10)
Dec(n, d) == (n * ONE) \div d

\* Math.round of a year kept in thousandths: floor(x + 0.5)
RoundMilli(m) == (m + 500) \div 1000

\* ------------------------------------------------------------------
\* 0. Constants & Config
\* ------------------------------------------------------------------
MAX_AGE_INTERNAL == 200

HEALTH_MIDPOINT_BIOAGE == 72

HEALTH_STEEPNESS == 9

HEALTHSPAN_THRESHOLD == 700000

PROGRESS_RATE_BASE == 18000

PROGRESS_SIGMA0 == 30000

UPTAKE_SIGMOID_WIDTH == 120000

FRAILTY_A == 650000

\* A logistic ten times as wide as LEV_K makes it
LEV_K_tenth == Ln(4 * ONE) \div 50

LEV_K == Ln(4 * ONE) \div 5

LEV_MEDIAN_95 == 2040

REJUV_TAU == 6

REJUV_EXTRA == 200000

Z_SCORES ==
    (5 :> -1644854) @@ (25 :> -674490) @@ (50 :> 0) @@ (75 :> 674490) @@ (95 :> 1644854)

\* The z-score table read with the sign reversed
getZScoreForCentile_negated(c) == IF c \in DOMAIN Z_SCORES THEN 0 - Z_SCORES[c] ELSE 0

getZScoreForCentile(c) == IF c \in DOMAIN Z_SCORES THEN Z_SCORES[c] ELSE 0

\* ------------------------------------------------------------------
\* 1. Utilities
\* ------------------------------------------------------------------
sigmoid(x) == InvOnePlusExp(0 - x)

\* qToH by the small-q approximation h = q
qToH_linear(q) == IF q >= ONE THEN 100 * ONE ELSE q

qToH(q) == IF q >= ONE THEN 100 * ONE ELSE 0 - Ln(ONE - q)

\* hToQ with the leading "1 -" lost: the probability comes out negative
hToQ_dropOne(h) == 0 - Exp(0 - h)

hToQ(h) == ONE - Exp(0 - h)

\* ------------------------------------------------------------------
\* 2. Core model functions.  A score is a fixed-point number: the cohort
\*    loop passes interpolated, fractional scores.
\* ------------------------------------------------------------------
\* getFrailtyMultiplier taking the score itself for the fraction p
getFrailtyMultiplier_noPercent(score) == Exp(Mul(FRAILTY_A, Dec(5, 10) - score))

getFrailtyMultiplier(score) ==
    LET p == score \div 100
    IN  Exp(Mul(FRAILTY_A, Dec(5, 10) - p))

getUptakeFactor(p) ==
    Dec(6, 10) + Mul(Dec(8, 10), sigmoid(Div(p - Dec(5, 10), UPTAKE_SIGMOID_WIDTH)))

\* optimismFactoryLimited without the 0.1 scale of a slider step
optimismFactoryLimited_unscaled(opt) == Max(0 - ONE, Min(ONE, opt * ONE))

optimismFactoryLimited(opt) == Max(0 - ONE, Min(ONE, opt * Dec(1, 10)))

\* getProgressMultiplier without its final clamp
progressClamp_none(r) == r

\* line 112: clamp r in [0.01, 1.20]
progressClamp(r) == Min(Dec(120, 100), Max(Dec(1, 100), r))

\* getProgressMultiplier without its hardlock
progressDisabled_never(optimism) == FALSE

\* line 91: the hardlock for no progress
progressDisabled(optimism) == optimism <= -10

\* the elapsed years counted on past the horizon
progressElapsedYears_uncapped(year, yH, currentYear) == Max(0, year - currentYear)

\* line 84: the years of progress elapsed, none before currentYear and none
\* after the horizon
progressElapsedYears(year, yH, currentYear) == Max(0, Min(year, yH) - currentYear)

getProgressMultiplier(year, score, quantileKey, optimism, horizonYear, currentYear) ==
    LET p == score \div 100
        yH == horizonYear
        elapsedYears == progressElapsedYears(year, yH, currentYear)
    IN  IF elapsedYears <= 0 THEN ONE
        ELSE IF progressDisabled(optimism) THEN ONE
        ELSE LET optimismFactor == optimism * Dec(1, 10)
                 k == Mul(PROGRESS_RATE_BASE, ONE + optimismFactor)
                 u_p == getUptakeFactor(p)
                 mu == Mul((0 - k) * elapsedYears, u_p)
                 sigma == Mul(Mul(PROGRESS_SIGMA0, Sqrt(Fx(elapsedYears))),
                              ONE - Mul(Dec(1, 10), optimismFactoryLimited(optimism)))
                 z_q == getZScoreForCentile(quantileKey)
                 r == Exp(mu + Mul(z_q, sigma))
             IN  progressClamp(r)

\* The shift with the band 50..75 falling by 9 years instead of 15 - 9
levShift_steepBand(targetScore) ==
    IF targetScore >= Fx(95) THEN 0
    ELSE IF targetScore >= Fx(75) THEN
        LET t == (targetScore - Fx(75)) \div (95 - 75)
        IN  9 * (ONE - t)
    ELSE IF targetScore >= Fx(50) THEN
        LET t == (targetScore - Fx(50)) \div (75 - 50)
        IN  Fx(15) - 9 * t
    ELSE
        LET s == Max(ONE, targetScore)
            t == (s - ONE) \div (50 - 1)
        IN  Fx(60) - (60 - 15) * t

\* The adoption-lag shift of computeLevDistribution (lines 150-169)
levShift(targetScore) ==
    IF targetScore >= Fx(95) THEN 0
    ELSE IF targetScore >= Fx(75) THEN
        LET t == (targetScore - Fx(75)) \div (95 - 75)
        IN  9 * (ONE - t)
    ELSE IF targetScore >= Fx(50) THEN
        LET t == (targetScore - Fx(50)) \div (75 - 50)
        IN  Fx(15) - (15 - 9) * t
    ELSE
        LET s == Max(ONE, targetScore)
            t == (s - ONE) \div (50 - 1)
        IN  Fx(60) - (60 - 15) * t

\* adjustedDelay with the delay multiplied by the speed factor
levAdjustedDelay_times(targetScore, optimism, currentYear) ==
    Mul(Fx(Max(0, LEV_MEDIAN_95 - currentYear)) + levShift(targetScore),
        ONE + Dec(1, 10) * optimism)

\* adjustedDelay of computeLevDistribution (lines 189-194), for optimism > -10
levAdjustedDelay(targetScore, optimism, currentYear) ==
    LET sf0 == ONE + Dec(1, 10) * optimism
        speedFactor == IF sf0 <= Dec(1, 100) THEN Dec(1, 1000) ELSE sf0
        baseDelay95 == Max(0, LEV_MEDIAN_95 - currentYear)
        totalBaseDelay == Fx(baseDelay95) + levShift(targetScore)
    IN  Div(totalBaseDelay, speedFactor)

\* The logistic CDF at calendar year y, m in thousandths of a year
levCdf(y, m) == InvOnePlusExp(Mul(0 - LEV_K, (y * 1000 - m) * 1000))

\* An early return that fills the window with zero masses
levUnreachable_zeroMass == [medianYear |-> 9999 * 1000, probMass |-> [i \in 1..121 |-> 0]]

\* line 132: the value returned when progress is impossible
levUnreachable == [medianYear |-> 9999 * 1000, probMass |-> <<>>]

\* LevParams.  medianYear is a real calendar year, kept in thousandths of a
\* year (9999 is 9999000); probMass[i] is the JS probMass[i - 1].
computeLevDistribution(targetScore, optimism, currentYear) ==
    IF optimism <= -10 THEN levUnreachable
    ELSE LET adjustedDelay == levAdjustedDelay(targetScore, optimism, currentYear)
             m == currentYear * 1000 + (adjustedDelay \div 1000)
             maxEvalYear == currentYear + 120
         IN  [medianYear |-> m,
              probMass |-> [i \in 1..(maxEvalYear - currentYear + 1) |->
                               levCdf(currentYear + i - 1, m) - levCdf(currentYear + i - 2, m)]]

\* getPaceOfAging without its final clamp
paceClamp_none(paceValid) == paceValid

\* line 251: clamp the pace in [-0.50, 2.00]
paceClamp(paceValid) == Min(Fx(2), Max(0 - Dec(5, 10), paceValid))

\* lambda built from the progress multiplier of the call's own quantile
paceLambdaQuantile_own(quantileKey) == quantileKey

\* line 240: lambda is built from the progress multiplier of quantile 50,
\* whatever the quantile of the call
paceLambdaQuantile(quantileKey) == 50

\* the pull starting eight years ahead of the LEV year
rejuvenationApplies_early(year, yLEV, optimism) == year >= yLEV - 8 /\ optimism > -10

\* line 246: the pull applies from the LEV year on, and only if there is
\* actual progress
rejuvenationApplies(year, yLEV, optimism) == year >= yLEV /\ optimism > -10

getPaceOfAging(year, score, quantileKey, optimism, horizonYear, currentYear, levMedianYear) ==
    LET yLEV == RoundMilli(levMedianYear)
        pTarget == score
        zScoreVal == getFrailtyMultiplier(pTarget)
        r_q == getProgressMultiplier(year, pTarget, quantileKey, optimism, horizonYear, currentYear)
        r_lev_median == getProgressMultiplier(yLEV, pTarget, paceLambdaQuantile(quantileKey),
                                              optimism, horizonYear, currentYear)
        paceBaseAtLev == Mul(zScoreVal, r_lev_median)
        lambda == paceBaseAtLev + REJUV_EXTRA
        L == IF rejuvenationApplies(year, yLEV, optimism)
             THEN Mul(lambda, ONE - Exp(Fx(0 - (year - yLEV)) \div REJUV_TAU))
             ELSE 0
        paceValid == Mul(zScoreVal, r_q) - L
    IN  paceClamp(paceValid)

bioAgeToHealth(bioAge) ==
    InvOnePlusExp((bioAge - Fx(HEALTH_MIDPOINT_BIOAGE)) \div HEALTH_STEEPNESS)

\* ------------------------------------------------------------------
\* 10. Probability of achieving LEV
\* ------------------------------------------------------------------
\* lines 491-498: refSurvival[i] * probMass[i] summed over i < probMass.length
\* with i < refSurvival.length
\* (integer addition is associative, so the terms are added pairwise)
levProbSum(probMass, refSurvival) ==
    LET n == Min(Len(probMass), Len(refSurvival))
        sum[lo \in 1..122, hi \in 0..121] ==
            IF lo > hi THEN 0
            ELSE IF lo = hi THEN Mul(refSurvival[lo], probMass[lo])
            ELSE LET mid == (lo + hi) \div 2
                 IN  sum[lo, mid] + sum[mid + 1, hi]
    IN  sum[1, n]

\* calculateLevProb without the 90% cap
levProbCap_none(pAchieve) == pAchieve

\* line 503: the fundamental difficulty limit
levProbCap(pAchieve) == Mul(pAchieve, Dec(90, 100))

\* the low score penalty applied to every score
levProbPenalty_always(score, pAchieve) ==
    Mul(pAchieve, Mul(score \div 20, score \div 20))

\* lines 507-514: the low score penalty
levProbPenalty(score, pAchieve) ==
    IF score < Fx(20)
    THEN LET penalty == Mul(score \div 20, score \div 20)
         IN  Mul(pAchieve, penalty)
    ELSE pAchieve

calculateLevProb(userAge, score, optimism, horizonYear, lifeTable, currentYear, refSurvival) ==
    LET probMass == computeLevDistribution(score, optimism, currentYear).probMass
    IN  levProbPenalty(score, levProbCap(levProbSum(probMass, refSurvival)))

\* ------------------------------------------------------------------
\* Life tables (lev_data_loader).  A LifeTable is [ages, qx]; the JS index
\* i of either array is index i + 1 of the sequence.
\* ------------------------------------------------------------------
SAMPLE_MALE_QX ==
    << <<0, 6000>>, <<10, 100>>, <<20, 1300>>, <<30, 2200>>, <<40, 3500>>,
       <<50, 6800>>, <<60, 13000>>, <<70, 26000>>, <<80, 55000>>, <<90, 130000>>,
       <<100, 280000>>, <<110, 500000>> >>

SAMPLE_FEMALE_QX ==
    << <<0, 5000>>, <<10, 100>>, <<20, 600>>, <<30, 1000>>, <<40, 2000>>,
       <<50, 4500>>, <<60, 8000>>, <<70, 19000>>, <<80, 42000>>, <<90, 100000>>,
       <<100, 240000>>, <<110, 480000>> >>

\* The first i (from 1) with data[i][1] <= age <= data[i+1][1], or 0
RECURSIVE interpolateScan(_, _, _)
interpolateScan(age, data, i) ==
    IF i > Len(data) - 1 THEN 0
    ELSE IF age >= data[i][1] /\ age <= data[i + 1][1] THEN i
    ELSE interpolateScan(age, data, i + 1)

interpolateQx(age, data) ==
    IF age <= data[1][1] THEN data[1][2]
    ELSE IF age >= data[Len(data)][1] THEN data[Len(data)][2]
    ELSE LET i == interpolateScan(age, data, 1)
         IN  IF i = 0 THEN Dec(99, 100)
             ELSE LET a1 == data[i][1]
                      q1 == data[i][2]
                      a2 == data[i + 1][1]
                      q2 == data[i + 1][2]
                      t == Dec(age - a1, a2 - a1)
                  IN  q1 + Mul(t, q2 - q1)

\* the extrapolated probability as predicted
capPredictedQ_none(predictedQ) == predictedQ

\* line 592: qx.push(Math.min(0.999, predictedQ))
capPredictedQ(predictedQ) == Min(Dec(999, 1000), predictedQ)

\* A exp(B a) with A = h1 / exp(B x1) is taken as h1 exp(B (a - x1)): the
\* same real number, with every factor inside the fixed-point range.
embedSampleData(sex) ==
    LET sourceData == IF sex = "male" THEN SAMPLE_MALE_QX ELSE SAMPLE_FEMALE_QX
        x1 == 90
        x2 == 110
        q1 == interpolateQx(x1, sourceData)
        q2 == interpolateQx(x2, sourceData)
        h1 == 0 - Ln(ONE - q1)
        h2 == 0 - Ln(ONE - q2)
        B == (Ln(h2) - Ln(h1)) \div (x2 - x1)
        predictedH(a) == Mul(h1, Exp(B * (a - x1)))
        predictedQ(a) == ONE - Exp(0 - predictedH(a))
    IN  [ages |-> [i \in 1..151 |-> i - 1],
         qx |-> [i \in 1..151 |->
                    IF i - 1 <= 110 THEN interpolateQx(i - 1, sourceData)
                    ELSE capPredictedQ(predictedQ(i - 1))]]

FemaleTable == embedSampleData("female")

MaleTable == embedSampleData("male")

\* lifeTable.qx[idx] ?? dflt
qxAt(lifeTable, idx, dflt) ==
    IF idx + 1 \in DOMAIN lifeTable.qx THEN lifeTable.qx[idx + 1] ELSE dflt

lastAge(lifeTable) == lifeTable.ages[Len(lifeTable.ages)]

\* ------------------------------------------------------------------
\* Inputs the model draws from
\* ------------------------------------------------------------------
\* A two-age table holding the extreme probabilities 0 and 1
EdgeTable == [ages |-> <<0, 1>>, qx |-> <<0, ONE>>]

\* A table whose qx holds no entry for its last age
GapTable == [ages |-> <<0, 1, 2>>, qx |-> <<Dec(1, 100), Dec(2, 100)>>]

LifeTables == [female |-> FemaleTable, male |-> MaleTable, edge |-> EdgeTable, gap |-> GapTable]

QuantileKeys == {5, 25, 50, 75, 95}

\* simulateCohort is run from the youngest age, and from the last two
SimYoungestAge == 0

SimStartAges == {SimYoungestAge, MAX_AGE_INTERNAL - 1, MAX_AGE_INTERNAL}

SimStartScores == {1, 50}

SimTargetScores == {20, 99}

SimOptimisms == {-10, 0, 5}

SimQuantiles == {5, 50, 95}

SimYears == {2024}

SimHorizons == {2050}

SimTables == {"female", "edge", "gap"}

\* The optimism slider: integer steps -10..+5
MinOptimism == -10

MaxOptimism == 5

Optimisms == MinOptimism..MaxOptimism

\* getProgressMultiplier is called in the calendar year currentYear + d
ProgYearOffsets == {-1, 0, 1, 6, 26, 36, 100, 200}

ProgHorizonOffsets == {-4, 26, 200}

ProgScores == {1, 50, 99}

\* 10 is not a key of Z_SCORES
ProgQuantiles == QuantileKeys \cup {10}

ProgYears == {2024}

\* getPaceOfAging: the LEV median years, in thousandths of a year
PaceLevMedians == {2024000, 2034667, 2040000, 2049500, 2100000, 9999000}

PaceYearOffsets == {0, 1, 15, 16, 26, 40, 100, 176}

PaceOptimisms == {MinOptimism - 1, MinOptimism, -9, 0, 5}

\* computeLevDistribution and calculateLevProb
LevScores == {1, 10, 19, 20, 49, 50, 74, 75, 85, 94, 95, 99}

LevOptimisms == (MinOptimism - 2)..MaxOptimism

LevYears == {2000, 2024, 2035, 2040, 2041, 2060}

\* Scores a millionth below the band boundaries 50, 75 and 95
LevBoundaryScores == {Fx(50) - 1, Fx(75) - 1, Fx(95) - 1}

\* The scores computeLevDistribution is called with
LevTargetScores == {Fx(targetScore) : targetScore \in LevScores} \cup LevBoundaryScores

\* refSurvival sequences of calculateLevProb: entries in [0, 1], any length
MaxRefLen == 130

RefLens == {0, 1, 60, 121, MaxRefLen}

RefShapes == {"ones", "half", "zero", "ramp"}

RefSurvival(shape, len) ==
    [i \in 1..len |->
        IF shape = "ones" THEN ONE
        ELSE IF shape = "half" THEN Dec(5, 10)
        ELSE IF shape = "zero" THEN 0
        ELSE ONE - Dec(i - 1, len)]

ProbScores == {1, 10, 19, 20, 50, 95}

ProbOptimisms == {-10, -9, -5, 0, 5}

ProbYears == {2024, 2045}

\* qToH and hToQ: probabilities in thousandths, and those next to 0 and 1
HazardQs ==
    {Dec(n, 1000) : n \in 0..1000} \cup {1, 10, 100, ONE - 1, ONE - 10, ONE - 100}

Scores == 1..99

\* seq[1] + ... + seq[Len(seq)]: reduce((acc, val) => acc + val, 0)
\* (integer addition is associative, so the terms are added pairwise)
SumSeq(seq) ==
    LET sum[lo \in 1..(MAX_AGE_INTERNAL + 2), hi \in 0..(MAX_AGE_INTERNAL + 1)] ==
            IF lo > hi THEN 0
            ELSE IF lo = hi THEN seq[lo]
            ELSE LET mid == (lo + hi) \div 2
                 IN  sum[lo, mid] + sum[mid + 1, hi]
    IN  sum[1, Len(seq)]

\* ------------------------------------------------------------------
\* State: the engine is single-threaded; pc is the position of the one
\* call in progress.  call is the call's name and arguments (and, for the
\* one-step functions, its result); the other variables are the locals of
\* simulateCohort and ret is what it returns.  scrubYear and isPlaying are
\* the page's timeline state (part_000, lines 82-83); the engine never
\* touches them.
\* ------------------------------------------------------------------
VARIABLES pc, call, last, a, S, B, levMedian, survival, annualSurvival,
          bioAge, health, aliveHealthy, paceArray, ret, scrubYear, isPlaying

vars == <<pc, call, last, a, S, B, levMedian, survival, annualSurvival,
          bioAge, health, aliveHealthy, paceArray, ret, scrubYear, isPlaying>>

uiState == <<scrubYear, isPlaying>>

\* part_000, line 81: currentYear = new Date().getFullYear()
UiCurrentYear == 2024

simLocals == <<a, S, B, levMedian, survival, annualSurvival,
               bioAge, health, aliveHealthy, paceArray, ret>>

NoCall == [fn |-> "none"]

NoRet == [lifeExpectancy |-> 0, healthExpectancy |-> 0, isIndefinite |-> FALSE]

Init ==
    /\ pc = "idle"
    /\ call = NoCall
    /\ last = NoCall
    /\ a = 0
    /\ S = 0
    /\ B = 0
    /\ levMedian = 0
    /\ survival = <<>>
    /\ annualSurvival = <<>>
    /\ bioAge = <<>>
    /\ health = <<>>
    /\ aliveHealthy = <<>>
    /\ paceArray = <<>>
    /\ ret = NoRet
    /\ scrubYear = UiCurrentYear
    /\ isPlaying = FALSE

\* ------------------------------------------------------------------
\* 9. Cohort generation: simulateCohort, lines 274-472
\* ------------------------------------------------------------------
\* An array that is allocated with one entry already in it
newArray_preloaded == <<0>>

\* One array kept outside the function: a call starts from what the survival
\* array held after the previous one
newArray_shared == survival

\* lines 287-292: each result array is allocated empty inside the call
newArray == <<>>

\* lines 287-348: the initial state and the entries at index 0
simulateCohortBegin(startAge, startScore, targetScore, horizonYear, optimism, table, currentYear, isProtocol, progressQuantile) ==
    LET lifeTable == LifeTables[table]
        S0 == ONE
        B0 == startAge * getFrailtyMultiplier(startScore)
        lm == IF isProtocol
              THEN computeLevDistribution(targetScore, optimism, currentYear).medianYear
              ELSE 0
        initialPace ==
            IF isProtocol
            THEN getPaceOfAging(currentYear, targetScore, progressQuantile, optimism,
                                horizonYear, currentYear, lm)
            ELSE Mul(getFrailtyMultiplier(startScore),
                     getProgressMultiplier(currentYear, startScore, 50, optimism,
                                           horizonYear, currentYear))
        idx0 == Min(startAge, lastAge(lifeTable))
        q0 == qxAt(lifeTable, idx0, Dec(1, 1000))
    IN  /\ pc = "idle"
        /\ pc' = "loop"
        /\ call' = [fn |-> "simulateCohort", startAge |-> startAge,
                    startScore |-> startScore, targetScore |-> targetScore,
                    horizonYear |-> horizonYear, optimism |-> optimism,
                    lifeTable |-> table, currentYear |-> currentYear,
                    isProtocol |-> isProtocol, progressQuantile |-> progressQuantile]
        /\ a' = startAge
        /\ S' = S0
        /\ B' = B0
        /\ levMedian' = lm
        /\ survival' = Append(newArray, S0)
        /\ bioAge' = Append(newArray, B0)
        /\ health' = Append(newArray, bioAgeToHealth(B0))
        /\ aliveHealthy' = Append(newArray, Mul(S0, bioAgeToHealth(B0)))
        /\ paceArray' = Append(newArray, initialPace)
        /\ annualSurvival' = Append(newArray, ONE - q0)
        /\ ret' = NoRet

\* A protocol-mode run from start age 150 under a horizon a century away,
\* where progress drives the hazard multiplier below its floor: start age,
\* start score, target score, horizon year, optimism, table, current year,
\* isProtocol, progress quantile
SimFarHorizonRuns == {<<150, 1, 99, 2124, 5, "female", 2024, TRUE, 5>>}

\* The argument lists simulateCohort is called with
SimRuns ==
    {<<startAge, s1, s2, horizonYear, optimism, table, currentYear, isProtocol, progressQuantile>> :
        startAge \in SimStartAges, s1 \in SimStartScores, s2 \in SimTargetScores,
        horizonYear \in SimHorizons, optimism \in SimOptimisms, table \in SimTables,
        currentYear \in SimYears, isProtocol \in BOOLEAN, progressQuantile \in SimQuantiles}
    \cup SimFarHorizonRuns

Begin ==
    /\ last' = NoCall
    /\ UNCHANGED uiState
    /\ \E r \in SimRuns :
           simulateCohortBegin(r[1], Fx(r[2]), Fx(r[3]), r[4], r[5], r[6], r[7], r[8], r[9])

\* the score in force without the ten-year interpolation
effectiveScoreAt_jump(year, startScore, targetScore, currentYear, isProtocol) ==
    IF isProtocol THEN targetScore ELSE startScore

\* lines 358-364: the score in force in calendar year `year`
effectiveScoreAt(year, startScore, targetScore, currentYear, isProtocol) ==
    IF isProtocol /\ (year - currentYear) < 10
    THEN LET t == Dec(year - currentYear, 10)
         IN  startScore + Mul(targetScore - startScore, t)
    ELSE IF isProtocol THEN targetScore ELSE startScore

\* the current scenario following the progress quantile of the call
currentQuantile_own(progressQuantile) == progressQuantile

\* lines 373-374, 405: the current scenario uses the progress quantile fixed
\* at the 50th
currentQuantile(progressQuantile) == 50

\* lines 366-376: the pace of one year
stepPace(year, effectiveScore, c, lm) ==
    IF c.isProtocol
    THEN getPaceOfAging(year, effectiveScore, c.progressQuantile, c.optimism,
                        c.horizonYear, c.currentYear, lm)
    ELSE LET zScore == getFrailtyMultiplier(effectiveScore)
             r == getProgressMultiplier(year, effectiveScore,
                                        currentQuantile(c.progressQuantile), c.optimism,
                                        c.horizonYear, c.currentYear)
         IN  Mul(zScore, r)

\* lines 394-407: the hazard multiplier of one year, before its clamp
stepMult(year, effectiveScore, c, p) ==
    LET zScore == getFrailtyMultiplier(effectiveScore)
    IN  IF c.isProtocol
        THEN LET r == getProgressMultiplier(year, effectiveScore, c.progressQuantile,
                                            c.optimism, c.horizonYear, c.currentYear)
                 mult == Mul(zScore, r)
             IN  IF p < 0 THEN Mul(mult, Exp(2 * p)) ELSE mult
        ELSE LET r == getProgressMultiplier(year, effectiveScore,
                                            currentQuantile(c.progressQuantile), c.optimism,
                                            c.horizonYear, c.currentYear)
             IN  Mul(zScore, r)

\* the life-table index without the cap at the table's last age
tableIdx_uncapped(lifeTable, b) == Max(0, b \div ONE)

\* lines 386-387: the life-table index for biological age b
tableIdx(lifeTable, b) ==
    LET ageIdx == Max(0, b \div ONE)
    IN  Min(ageIdx, lastAge(lifeTable))

\* the hazard multiplier applied as computed
clampMult_none(mult) == mult

\* line 409: the hazard multiplier applied lies in [0.05, 2.5]
clampMult(mult) == Max(Dec(5, 100), Min(Dec(25, 10), mult))

\* lines 386-410: the one-year death probability at biological age b
stepQFinal(lifeTable, b, mult) ==
    LET qBase == qxAt(lifeTable, tableIdx(lifeTable, b), Dec(99, 100))
        h0 == qToH(qBase)
        hFinal == Mul(h0, clampMult(mult))
    IN  Min(Dec(999, 1000), hToQ(hFinal))

\* the biological age left where it was
nextBioAge_frozen(bio, p) == bio

\* line 414: B = B + p
nextBioAge(bio, p) == bio + p

\* lines 351-430: one iteration of the loop.  The values pushed are read
\* back from the updated variables where the code reuses them.
Step ==
    /\ pc = "loop"
    /\ a < MAX_AGE_INTERNAL
    /\ LET c == call
           year == c.currentYear + (a - c.startAge)
           effectiveScore == effectiveScoreAt(year, c.startScore, c.targetScore,
                                              c.currentYear, c.isProtocol)
       IN  /\ paceArray' = Append(paceArray, stepPace(year, effectiveScore, c, levMedian))
           /\ LET p == paceArray'[Len(paceArray')]
                  mult == stepMult(year, effectiveScore, c, p)
                  qFinal == stepQFinal(LifeTables[c.lifeTable], B, mult)
              IN  /\ annualSurvival' = Append(annualSurvival, ONE - qFinal)
                  /\ S' = Mul(S, annualSurvival'[Len(annualSurvival')])
                  /\ B' = nextBioAge(B, p)
           /\ survival' = Append(survival, S')
           /\ bioAge' = Append(bioAge, B')
           /\ health' = Append(health, bioAgeToHealth(B'))
           /\ aliveHealthy' = Append(aliveHealthy, Mul(S', health'[Len(health')]))
    /\ a' = a + 1
    /\ UNCHANGED uiState
    /\ UNCHANGED <<pc, call, last, levMedian, ret>>

\* health-weighted years in place of years above the threshold
healthyYears_weighted(S_val, H_val) == Mul(S_val, H_val)

\* lines 448-452: a year counts in full when health is at or above the
\* healthspan threshold, and not at all below it
healthyYears(S_val, H_val) == IF H_val >= HEALTHSPAN_THRESHOLD THEN S_val ELSE 0

\* the flag raised by a negative last pace alone
indefiniteCondition_paceOnly(isProtocol, lastPace, lastSurvival) ==
    isProtocol /\ lastPace < 0 - Dec(1, 10)

\* line 459: the "indefinite" condition
indefiniteCondition(isProtocol, lastPace, lastSurvival) ==
    isProtocol /\ (lastPace < 0 - Dec(1, 10) /\ lastSurvival > Dec(1, 100))

\* line 413 in double arithmetic: S is the product of the annual survivals
\* of the steps taken, and a double holds no positive value below 2^-1075.
\* ln S for the first n entries, as the sum of the logarithms
survivalLn(n) == SumSeq([i \in 1..n |-> IF i = 1 THEN 0 ELSE Ln(annualSurvival[i])])

\* ln 2^-1075, the logarithm below which a double product rounds to 0
LnSmallestDouble == 0 - 1075 * (LN2 \div 100)

\* S at entry n has underflowed to exactly 0.  One unit of ln is left as
\* margin for the resolution the annual survivals are kept to.
survivalUnderflows(n) == survivalLn(n) < LnSmallestDouble - ONE

\* a whole year taken off the sum
expectancy_lessOne(sum) == sum - ONE

\* lines 440 and 454: half a year is taken off the sum, for mid-year
expectancy(sum) == sum - Dec(5, 10)

\* lines 439-471: the expectancies and the flag
Finish ==
    /\ pc = "loop"
    /\ ~(a < MAX_AGE_INTERNAL)
    /\ LET sumS == SumSeq(survival)
           lifeExpectancy == expectancy(sumS)
           sumSH == SumSeq([idx \in 1..Len(aliveHealthy) |->
                               healthyYears(survival[idx], health[idx])])
           healthExpectancy == expectancy(sumSH)
           lastPace == paceArray[Len(paceArray)]
           isIndefinite == indefiniteCondition(call.isProtocol, lastPace,
                                               survival[Len(survival)])
       IN  ret' = [lifeExpectancy |-> lifeExpectancy,
                   healthExpectancy |-> healthExpectancy,
                   isIndefinite |-> isIndefinite]
    /\ pc' = "done"
    /\ UNCHANGED uiState
    /\ UNCHANGED <<call, last, a, S, B, levMedian, survival, annualSurvival,
                   bioAge, health, aliveHealthy, paceArray>>

\* The caller takes the result; the frame and its locals are gone
Return ==
    /\ pc = "done"
    /\ pc' = "idle"
    /\ call' = NoCall
    /\ last' = NoCall
    /\ a' = 0
    /\ S' = 0
    /\ B' = 0
    /\ levMedian' = 0
    /\ survival' = <<>>
    /\ annualSurvival' = <<>>
    /\ bioAge' = <<>>
    /\ health' = <<>>
    /\ aliveHealthy' = <<>>
    /\ paceArray' = <<>>
    /\ ret' = NoRet
    /\ UNCHANGED uiState

\* ------------------------------------------------------------------
\* Calls of the one-step functions.  Each runs to completion while no
\* simulateCohort call is in progress; call holds its arguments and its
\* result (out).  When a call repeats the previous one with one argument
\* moved by one step, last holds the previous call.
\* ------------------------------------------------------------------
progressCall(year, score, quantileKey, optimism, horizonYear, currentYear) ==
    [fn |-> "getProgressMultiplier", year |-> year, score |-> score,
     quantileKey |-> quantileKey, optimism |-> optimism,
     horizonYear |-> horizonYear, currentYear |-> currentYear,
     out |-> getProgressMultiplier(year, score, quantileKey, optimism,
                                   horizonYear, currentYear)]

CallGetProgressMultiplier ==
    /\ pc = "idle"
    /\ \E currentYear \in ProgYears, d \in ProgYearOffsets, h \in ProgHorizonOffsets,
          score \in ProgScores, quantileKey \in ProgQuantiles, optimism \in Optimisms :
           call' = progressCall(currentYear + d, Fx(score), quantileKey, optimism,
                                currentYear + h, currentYear)
    /\ last' = NoCall
    /\ pc' = "done"
    /\ UNCHANGED uiState
    /\ UNCHANGED simLocals

\* The optimism slider moves up one step and the multiplier is recomputed
RaiseOptimism ==
    /\ pc = "done"
    /\ call.fn = "getProgressMultiplier"
    /\ call.optimism < MaxOptimism
    /\ call' = progressCall(call.year, call.score, call.quantileKey, call.optimism + 1,
                            call.horizonYear, call.currentYear)
    /\ last' = call
    /\ UNCHANGED uiState
    /\ UNCHANGED <<pc, simLocals>>

\* The keys of Z_SCORES in increasing order: the one after k
NextQuantileKey(k) == IF k = 5 THEN 25 ELSE IF k = 25 THEN 50 ELSE IF k = 50 THEN 75 ELSE 95

\* The same call repeated for the next higher quantile key, as the fan of
\* cohorts for the keys 5, 25, 50, 75, 95 does
RaiseQuantile ==
    /\ pc = "done"
    /\ call.fn = "getProgressMultiplier"
    /\ call.quantileKey \in {5, 25, 50, 75}
    /\ call' = progressCall(call.year, call.score, NextQuantileKey(call.quantileKey),
                            call.optimism, call.horizonYear, call.currentYear)
    /\ last' = call
    /\ UNCHANGED uiState
    /\ UNCHANGED <<pc, simLocals>>

CallGetPaceOfAging ==
    /\ pc = "idle"
    /\ \E currentYear \in ProgYears, d \in PaceYearOffsets, score \in ProgScores,
          quantileKey \in SimQuantiles, optimism \in PaceOptimisms,
          horizonYear \in SimHorizons, levMedianYear \in PaceLevMedians :
           call' = [fn |-> "getPaceOfAging", year |-> currentYear + d,
                    score |-> Fx(score), quantileKey |-> quantileKey,
                    optimism |-> optimism, horizonYear |-> horizonYear,
                    currentYear |-> currentYear, levMedianYear |-> levMedianYear,
                    out |-> getPaceOfAging(currentYear + d, Fx(score), quantileKey,
                                           optimism, horizonYear, currentYear,
                                           levMedianYear)]
    /\ last' = NoCall
    /\ pc' = "done"
    /\ UNCHANGED uiState
    /\ UNCHANGED simLocals

\* The same getPaceOfAging call repeated for the next higher quantile key,
\* as the fan of cohorts does year by year
PaceRaiseQuantile ==
    /\ pc = "done"
    /\ call.fn = "getPaceOfAging"
    /\ call.quantileKey \in {5, 25, 50, 75}
    /\ call' = [call EXCEPT
                   !.quantileKey = NextQuantileKey(call.quantileKey),
                   !.out = getPaceOfAging(call.year, call.score,
                                          NextQuantileKey(call.quantileKey), call.optimism,
                                          call.horizonYear, call.currentYear,
                                          call.levMedianYear)]
    /\ last' = call
    /\ UNCHANGED uiState
    /\ UNCHANGED <<pc, simLocals>>

CallComputeLevDistribution ==
    /\ pc = "idle"
    /\ \E targetScore \in LevTargetScores, optimism \in LevOptimisms, currentYear \in LevYears :
           call' = [fn |-> "computeLevDistribution", targetScore |-> targetScore,
                    optimism |-> optimism, currentYear |-> currentYear,
                    out |-> computeLevDistribution(targetScore, optimism, currentYear)]
    /\ last' = NoCall
    /\ pc' = "done"
    /\ UNCHANGED uiState
    /\ UNCHANGED simLocals

\* The target score slider moves up one step, optimism at its default 0,
\* and the distribution is recomputed
RaiseTargetScore ==
    /\ pc = "done"
    /\ call.fn = "computeLevDistribution"
    /\ call.optimism = 0
    /\ call.targetScore + ONE <= Fx(99)
    /\ call' = [call EXCEPT
                   !.targetScore = call.targetScore + ONE,
                   !.out = computeLevDistribution(call.targetScore + ONE, call.optimism,
                                                  call.currentYear)]
    /\ last' = call
    /\ UNCHANGED uiState
    /\ UNCHANGED <<pc, simLocals>>

CallCalculateLevProb ==
    /\ pc = "idle"
    /\ \E score \in ProbScores, optimism \in ProbOptimisms, currentYear \in ProbYears,
          shape \in RefShapes, len \in RefLens :
           call' = [fn |-> "calculateLevProb", score |-> Fx(score), optimism |-> optimism,
                    currentYear |-> currentYear, refSurvival |-> RefSurvival(shape, len),
                    out |-> calculateLevProb(0, Fx(score), optimism, 0, "female",
                                             currentYear, RefSurvival(shape, len))]
    /\ last' = NoCall
    /\ pc' = "done"
    /\ UNCHANGED uiState
    /\ UNCHANGED simLocals

\* The life table is loaded for the sex chosen
CallEmbedSampleData ==
    /\ pc = "idle"
    /\ \E sex \in {"male", "female"} :
           call' = [fn |-> "embedSampleData", sex |-> sex, out |-> embedSampleData(sex)]
    /\ last' = NoCall
    /\ pc' = "done"
    /\ UNCHANGED uiState
    /\ UNCHANGED simLocals

CallQToH ==
    /\ pc = "idle"
    /\ \E q \in HazardQs : call' = [fn |-> "qToH", q |-> q, out |-> qToH(q)]
    /\ last' = NoCall
    /\ pc' = "done"
    /\ UNCHANGED uiState
    /\ UNCHANGED simLocals

\* hToQ applied to the hazard the previous qToH call returned
CallHToQ ==
    /\ pc = "done"
    /\ call.fn = "qToH"
    /\ call' = [fn |-> "hToQ", h |-> call.out, out |-> hToQ(call.out)]
    /\ last' = call
    /\ UNCHANGED uiState
    /\ UNCHANGED <<pc, simLocals>>

frailtyCall(score) ==
    [fn |-> "getFrailtyMultiplier", score |-> score, out |-> getFrailtyMultiplier(Fx(score))]

CallGetFrailtyMultiplier ==
    /\ pc = "idle"
    /\ \E score \in Scores : call' = frailtyCall(score)
    /\ last' = NoCall
    /\ pc' = "done"
    /\ UNCHANGED uiState
    /\ UNCHANGED simLocals

\* The score slider moves up one step and the multiplier is recomputed
RaiseScore ==
    /\ pc = "done"
    /\ call.fn = "getFrailtyMultiplier"
    /\ call.score + 1 \in Scores
    /\ call' = frailtyCall(call.score + 1)
    /\ last' = call
    /\ UNCHANGED uiState
    /\ UNCHANGED <<pc, simLocals>>

\* ------------------------------------------------------------------
\* Repeated calls.  The caller keeps the result of one call (the UI holds
\* its cohorts in useMemo) while further calls run; last is then the memo
\* [fn |-> "memo", args, result].  A finished frame is not wiped: what its
\* locals held stays behind until the next call allocates its own.
\* ------------------------------------------------------------------
RepeatAges == {MAX_AGE_INTERNAL - 2, MAX_AGE_INTERNAL}

RepeatOptimisms == {MinOptimism, MaxOptimism}

RepeatScores == {10, 95}

RepeatRefLens == {1, 121}

RepeatQuantiles == {50, 95}

\* The arguments of a call: everything in its record but the result
CallArgs(c) == [k \in (DOMAIN c) \ {"out"} |-> c[k]]

\* What the finished call hands back
CallResult ==
    IF call.fn = "simulateCohort"
    THEN [survival |-> survival, annualSurvival |-> annualSurvival, bioAge |-> bioAge,
          health |-> health, aliveHealthy |-> aliveHealthy, pace |-> paceArray,
          lifeExpectancy |-> ret.lifeExpectancy,
          healthExpectancy |-> ret.healthExpectancy,
          isIndefinite |-> ret.isIndefinite]
    ELSE call.out

Remember ==
    /\ pc = "done"
    /\ last = NoCall
    /\ last' = [fn |-> "memo", args |-> CallArgs(call), result |-> CallResult]
    /\ pc' = "idle"
    /\ call' = NoCall
    /\ UNCHANGED uiState
    /\ UNCHANGED simLocals

\* A later call returns while the memo is kept
ReturnKeep ==
    /\ pc = "done"
    /\ last.fn = "memo"
    /\ pc' = "idle"
    /\ call' = NoCall
    /\ UNCHANGED uiState
    /\ UNCHANGED <<last, simLocals>>

RepeatSimulateCohort ==
    /\ \E startAge \in RepeatAges, targetScore \in RepeatScores,
          optimism \in RepeatOptimisms, isProtocol \in BOOLEAN,
          progressQuantile \in RepeatQuantiles :
           simulateCohortBegin(startAge, Fx(50), Fx(targetScore), 2050, optimism,
                               "female", 2024, isProtocol, progressQuantile)
    /\ UNCHANGED uiState
    /\ UNCHANGED last

RepeatComputeLevDistribution ==
    /\ pc = "idle"
    /\ \E targetScore \in RepeatScores, optimism \in RepeatOptimisms :
           call' = [fn |-> "computeLevDistribution", targetScore |-> Fx(targetScore),
                    optimism |-> optimism, currentYear |-> 2024,
                    out |-> computeLevDistribution(Fx(targetScore), optimism, 2024)]
    /\ pc' = "done"
    /\ UNCHANGED uiState
    /\ UNCHANGED <<last, simLocals>>

RepeatCalculateLevProb ==
    /\ pc = "idle"
    /\ \E score \in RepeatScores, len \in RepeatRefLens :
           call' = [fn |-> "calculateLevProb", score |-> Fx(score), optimism |-> 0,
                    currentYear |-> 2024, refSurvival |-> RefSurvival("ramp", len),
                    out |-> calculateLevProb(0, Fx(score), 0, 0, "female", 2024,
                                             RefSurvival("ramp", len))]
    /\ pc' = "done"
    /\ UNCHANGED uiState
    /\ UNCHANGED <<last, simLocals>>

\* ------------------------------------------------------------------
\* Specifications
\* ------------------------------------------------------------------
\* The cohort simulation, and getPaceOfAging called on its own
Next ==
    \/ Begin \/ Step \/ Finish \/ Return
    \/ CallGetPaceOfAging \/ PaceRaiseQuantile \/ CallGetProgressMultiplier

Spec == Init /\ [][Next]_vars

\* The medical progress model
NextProgress == CallGetProgressMultiplier \/ RaiseOptimism \/ RaiseQuantile \/ Return

SpecProgress == Init /\ [][NextProgress]_vars

\* The LEV arrival distribution and the achievement probability
NextLev ==
    \/ CallComputeLevDistribution \/ RaiseTargetScore
    \/ CallCalculateLevProb \/ Return

SpecLev == Init /\ [][NextLev]_vars

\* Hazard conversion and the frailty model
NextHazard ==
    \/ CallQToH \/ CallHToQ \/ CallGetFrailtyMultiplier \/ RaiseScore
    \/ CallEmbedSampleData \/ Return

SpecHazard == Init /\ [][NextHazard]_vars

\* Calls repeated with the result of an earlier call kept
NextRepeat ==
    \/ RepeatSimulateCohort \/ Step \/ Finish
    \/ RepeatComputeLevDistribution \/ RepeatCalculateLevProb
    \/ Remember \/ ReturnKeep

SpecRepeat == Init /\ [][NextRepeat]_vars

\* ------------------------------------------------------------------
\* Properties of the cohort simulation (Spec)
\* ------------------------------------------------------------------
\* C1: the survival sequence of simulateCohort starts at 1.0 and never
\* increases: survival[i+1] <= survival[i] at every index, at every point of
\* the loop and in the returned result
C1_SurvivalNonIncreasing ==
    /\ Len(survival) >= 1 => survival[1] = ONE
    /\ \A i \in 1..(Len(survival) - 1) : survival[i + 1] <= survival[i]

\* C1: a finished simulation of more than a hundred years whose survival has
\* fallen below 1.0 and is still positive
C1_Witness ==
    /\ pc = "done"
    /\ call.fn = "simulateCohort"
    /\ Len(survival) > 100
    /\ survival[Len(survival)] < survival[1]
    /\ survival[Len(survival)] > 0

\* C5: every value getPaceOfAging returns, and every entry of the pace
\* sequence of simulateCohort in protocol and in non-protocol mode, lies in
\* [-0.50, 2.00]
C5_PaceWithinClamp ==
    /\ \A i \in 1..Len(paceArray) :
           paceArray[i] >= 0 - Dec(5, 10) /\ paceArray[i] <= Fx(2)
    /\ call.fn = "getPaceOfAging" =>
           call.out >= 0 - Dec(5, 10) /\ call.out <= Fx(2)

\* C5: getPaceOfAging returned exactly the lower clamp value -0.50
C5_Witness ==
    /\ pc = "done"
    /\ call.fn = "getPaceOfAging"
    /\ call.out = 0 - Dec(5, 10)

\* ------------------------------------------------------------------
\* Properties of the medical progress model (SpecProgress)
\* ------------------------------------------------------------------
IsProgressCall == pc = "done" /\ call.fn = "getProgressMultiplier"

\* A call that repeats the previous one with optimism one step higher
IsOptimismStep ==
    /\ IsProgressCall
    /\ last.fn = "getProgressMultiplier"
    /\ call.optimism = last.optimism + 1
    /\ call.quantileKey = last.quantileKey

\* C4: getProgressMultiplier returns a value in [0.01, 1.20] for every
\* year, score, quantile key, optimism, horizonYear and currentYear
C4_ProgressWithinClamp ==
    IsProgressCall => call.out >= Dec(1, 100) /\ call.out <= Dec(120, 100)

\* C4: a call with progress enabled and years elapsed that returned exactly
\* the upper clamp value 1.20
C4_Witness ==
    /\ IsProgressCall
    /\ call.optimism > MinOptimism
    /\ call.year > call.currentYear
    /\ call.out = Dec(120, 100)

\* C9 (as the code has it): for fixed year, score, quantileKey, horizonYear
\* and currentYear, the value of getProgressMultiplier never increases when
\* optimism is raised by a step within -9..5
C9_ProgressNonIncreasing ==
    (IsOptimismStep /\ last.optimism > MinOptimism) => call.out <= last.out

\* C9: a step of optimism within -9..5 after which the multiplier is
\* strictly smaller
C9_Witness ==
    /\ IsOptimismStep
    /\ last.optimism > MinOptimism
    /\ call.optimism = last.optimism + 1
    /\ call.out < last.out

\* C9 as stated: the value of getProgressMultiplier is non-decreasing as
\* optimism increases over -10..5
C9_AsStated ==
    IsOptimismStep => call.out >= last.out

\* C10 (as the code has it): for every quantile key, raising optimism by
\* one step never makes getProgressMultiplier larger when the step starts
\* in -9..4; the step from the hard-disabled -10 to -9 never makes it larger
\* for the keys 5, 25 and 50
C10_StepNeverLarger ==
    (/\ IsOptimismStep
     /\ call.quantileKey \in QuantileKeys
     /\ (last.optimism > MinOptimism \/ call.quantileKey \in {5, 25, 50}))
        => call.out <= last.out

\* C10: the step from -10 to -9 for one of the keys 5, 25, 50, after which
\* the multiplier is strictly below the hard-disabled value 1.0
C10_Witness ==
    /\ IsOptimismStep
    /\ last.optimism = MinOptimism
    /\ call.quantileKey \in {5, 25, 50}
    /\ last.out = ONE
    /\ call.out < ONE

\* C10 as stated: for every quantile key, raising optimism by one step
\* anywhere in -10..5, the step from -10 to -9 included, never makes
\* getProgressMultiplier larger
C10_AsStated ==
    (IsOptimismStep /\ call.quantileKey \in QuantileKeys) => call.out <= last.out

\* ------------------------------------------------------------------
\* Properties of the LEV arrival distribution (SpecLev)
\* ------------------------------------------------------------------
IsLevCall == pc = "done" /\ call.fn = "computeLevDistribution"

\* medianYear - currentYear of the returned distribution, in thousandths of
\* a year
LevDelayMilli == call.out.medianYear - call.currentYear * 1000

\* The total of the returned masses
LevMassTotal == SumSeq(call.out.probMass)

\* C2 (as the code has it): for optimism in -9..5 probMass has exactly 121
\* entries, none negative, whose sum never exceeds 1; the sum is within 1e-3
\* of 1 when medianYear lies 24 to 95 years after currentYear, and falls
\* short of 1 by more than 1e-3 when medianYear lies less than 23 or more
\* than 96 years after currentYear
C2_MassWithinWindow ==
    (IsLevCall /\ call.optimism > MinOptimism) =>
        /\ Len(call.out.probMass) = 121
        /\ \A i \in 1..121 : call.out.probMass[i] >= 0
        /\ LevMassTotal <= ONE
        /\ (LevDelayMilli >= 24 * 1000 /\ LevDelayMilli <= 95 * 1000)
               => ONE - LevMassTotal <= Dec(1, 1000)
        /\ (LevDelayMilli < 23 * 1000 \/ LevDelayMilli > 96 * 1000)
               => ONE - LevMassTotal > Dec(1, 1000)

\* C2: a distribution whose median lies 24 to 95 years ahead and whose 121
\* masses sum to within 1e-3 of 1 without reaching it
C2_Witness ==
    /\ IsLevCall
    /\ call.optimism > MinOptimism
    /\ LevDelayMilli >= 24 * 1000
    /\ LevDelayMilli <= 95 * 1000
    /\ Len(call.out.probMass) = 121
    /\ LevMassTotal < ONE
    /\ ONE - LevMassTotal <= Dec(1, 1000)

\* C2 as stated: for every targetScore, currentYear and optimism in -9..5
\* probMass has exactly 121 entries whose sum is within 1e-3 of 1
C2_AsStated ==
    (IsLevCall /\ call.optimism > MinOptimism) =>
        /\ Len(call.out.probMass) = 121
        /\ ONE - LevMassTotal <= Dec(1, 1000)
        /\ LevMassTotal - ONE <= Dec(1, 1000)

\* C3: for optimism <= -10 computeLevDistribution returns medianYear 9999
\* and an empty probMass, for every targetScore and every currentYear
C3_DisabledReturnsEmpty ==
    (IsLevCall /\ call.optimism <= MinOptimism) =>
        /\ call.out.medianYear = 9999 * 1000
        /\ call.out.probMass = <<>>

\* C3: a call with optimism below -10 that returned medianYear 9999 and no
\* masses
C3_Witness ==
    /\ IsLevCall
    /\ call.optimism < MinOptimism
    /\ call.out.medianYear = 9999 * 1000
    /\ Len(call.out.probMass) = 0

IsLevProbCall == pc = "done" /\ call.fn = "calculateLevProb"

\* C6: calculateLevProb returns a value in [0, 0.90] for every score,
\* optimism, currentYear and refSurvival sequence with entries in [0, 1],
\* of any length
C6_LevProbWithinCap ==
    IsLevProbCall => call.out >= 0 /\ call.out <= Dec(90, 100)

\* C6: a call with a refSurvival longer than the window, all ones, that
\* returned more than 0.89
C6_Witness ==
    /\ IsLevProbCall
    /\ Len(call.refSurvival) > 121
    /\ \A i \in 1..Len(call.refSurvival) : call.refSurvival[i] = ONE
    /\ call.out > Dec(89, 100)

\* ------------------------------------------------------------------
\* Properties of the hazard conversion and the frailty model (SpecHazard)
\* ------------------------------------------------------------------
\* hToQ has just been applied to the result of qToH(last.q)
IsRoundTrip == pc = "done" /\ call.fn = "hToQ" /\ last.fn = "qToH"

IsFrailtyCall == pc = "done" /\ call.fn = "getFrailtyMultiplier"

\* C8: getFrailtyMultiplier is strictly decreasing in score over 1..99 and
\* is exactly 1.0 at score 50: above 1 for every score below 50, below 1 for
\* every score above 50
C8_FrailtyStrictlyDecreasing ==
    IsFrailtyCall =>
        /\ last.fn = "getFrailtyMultiplier" => call.out < last.out
        /\ call.score = 50 => call.out = ONE
        /\ call.score < 50 => call.out > ONE
        /\ call.score > 50 => call.out < ONE

\* C8: the score raised from 49 to 50 takes the multiplier from above 1.0
\* to exactly 1.0
C8_Witness ==
    /\ IsFrailtyCall
    /\ last.fn = "getFrailtyMultiplier"
    /\ last.score = 49
    /\ call.score = 50
    /\ last.out > ONE
    /\ call.out = ONE

\* ------------------------------------------------------------------
\* The quantile keys of the progress model (SpecProgress)
\* ------------------------------------------------------------------
\* A call that repeats the previous one with the next higher quantile key
IsQuantileStep ==
    /\ IsProgressCall
    /\ last.fn = "getProgressMultiplier"
    /\ call.optimism = last.optimism
    /\ call.quantileKey > last.quantileKey

\* C11 as stated: for every year > currentYear, horizonYear > currentYear
\* and optimism in -9..5, getProgressMultiplier with the higher quantile key
\* returns a hazard multiplier no larger than with the lower one (key 95 no
\* larger than key 5, with 25, 50, 75 ordered in between)
C11_AsStated ==
    (/\ IsQuantileStep
     /\ call.year > call.currentYear
     /\ call.horizonYear > call.currentYear
     /\ call.optimism > MinOptimism)
        => call.out <= last.out

\* ------------------------------------------------------------------
\* The LEV median year (SpecLev)
\* ------------------------------------------------------------------
\* max(0, 2040 - currentYear) + shift(targetScore) of the call, in years
LevBaseDelay == Fx(Max(0, LEV_MEDIAN_95 - call.currentYear)) + levShift(call.targetScore)

\* C12: for optimism in -9..5 medianYear is currentYear +
\* (max(0, 2040 - currentYear) + shift) / (1 + 0.1 * optimism), stated
\* without the division: (medianYear - currentYear) * (10 + optimism) is
\* (max(0, 2040 - currentYear) + shift) * 10, to within the thousandth of a
\* year medianYear is kept to; with optimism 0 and currentYear <= 2040 it is
\* 2040 + shift, at currentYear 2024 it is 2040 for targetScore 95 and 2055
\* for targetScore 50
C12_MedianYearFormula ==
    (IsLevCall /\ call.optimism > MinOptimism) =>
        /\ LevDelayMilli * (10 + call.optimism) * 1000 <= LevBaseDelay * 10 + 100
        /\ LevDelayMilli * (10 + call.optimism) * 1000 >=
               LevBaseDelay * 10 - (10 + call.optimism) * 1000 - 100
        /\ (call.optimism = 0 /\ call.currentYear <= LEV_MEDIAN_95) =>
               call.out.medianYear =
                   LEV_MEDIAN_95 * 1000 + (levShift(call.targetScore) \div 1000)
        /\ (call.optimism = 0 /\ call.currentYear = 2024 /\ call.targetScore = Fx(95)) =>
               call.out.medianYear = 2040 * 1000
        /\ (call.optimism = 0 /\ call.currentYear = 2024 /\ call.targetScore = Fx(50)) =>
               call.out.medianYear = 2055 * 1000

\* C12: the call for currentYear 2024, targetScore 50 and optimism +5, whose
\* 31 years of base delay shrink to 20.666 years: medianYear 2044.666
C12_Witness ==
    /\ IsLevCall
    /\ call.currentYear = 2024
    /\ call.targetScore = Fx(50)
    /\ call.optimism = MaxOptimism
    /\ LevBaseDelay = Fx(31)
    /\ call.out.medianYear = 2044666

\* ------------------------------------------------------------------
\* Repeated calls (SpecRepeat)
\* ------------------------------------------------------------------
\* A call has finished whose arguments are those of the remembered call
IsRepeatedCall == pc = "done" /\ last.fn = "memo" /\ CallArgs(call) = last.args

IsSimulating == pc \in {"loop", "done"} /\ call.fn = "simulateCohort"

\* The six result sequences
SimSequences == <<survival, annualSurvival, bioAge, health, aliveHealthy, paceArray>>

\* C14: simulateCohort runs exactly 200 - startAge loop iterations: after
\* a - startAge of them each of the six sequences has a - startAge + 1
\* entries, a never passes 200, and the call returns at a = 200 with
\* 201 - startAge entries in each; index 0 describes the start age
\* (survival 1.0, biological age startAge x frailty of the start score)
C14_SequenceLengths ==
    IsSimulating =>
        /\ a >= call.startAge
        /\ a <= MAX_AGE_INTERNAL
        /\ \A k \in 1..6 : Len(SimSequences[k]) = a - call.startAge + 1
        /\ pc = "done" =>
               /\ a = MAX_AGE_INTERNAL
               /\ \A k \in 1..6 :
                      Len(SimSequences[k]) = MAX_AGE_INTERNAL + 1 - call.startAge
        /\ survival[1] = ONE
        /\ bioAge[1] = call.startAge * getFrailtyMultiplier(call.startScore)

\* C14: a finished run from a start age below 199, with more than two
\* entries in each sequence
C14_Witness ==
    /\ pc = "done"
    /\ call.fn = "simulateCohort"
    /\ call.startAge < MAX_AGE_INTERNAL - 1
    /\ \A k \in 1..6 : Len(SimSequences[k]) = MAX_AGE_INTERNAL + 1 - call.startAge

\* ------------------------------------------------------------------
\* The rejuvenation pull of getPaceOfAging (Spec)
\* ------------------------------------------------------------------
\* A getPaceOfAging call that repeats the previous one with another
\* quantile key
IsPaceQuantileStep ==
    /\ pc = "done"
    /\ call.fn = "getPaceOfAging"
    /\ last.fn = "getPaceOfAging"
    /\ call.quantileKey # last.quantileKey

\* The pace v came out of the clamp as it went in
PaceUnclamped(v) == v > 0 - Dec(5, 10) /\ v < Fx(2)

\* frailtyMultiplier(score) x r_q(year) for the arguments of the call
PaceBaseOf(c) ==
    Mul(getFrailtyMultiplier(c.score),
        getProgressMultiplier(c.year, c.score, c.quantileKey, c.optimism,
                              c.horizonYear, c.currentYear))

\* C15: the rejuvenation pull L of getPaceOfAging does not depend on
\* quantileKey: two calls that differ only in quantileKey have paces that,
\* where the clamp leaves them as they are, differ exactly by
\* frailtyMultiplier(score) x (r_q1(year) - r_q2(year))
C15_PullIndependentOfQuantile ==
    (IsPaceQuantileStep /\ PaceUnclamped(call.out) /\ PaceUnclamped(last.out)) =>
        call.out - last.out = PaceBaseOf(call) - PaceBaseOf(last)

\* C15: two such calls in a year after the LEV year, with progress enabled
\* (the pull is at work), whose paces differ
C15_Witness ==
    /\ IsPaceQuantileStep
    /\ call.optimism > MinOptimism
    /\ call.year > RoundMilli(call.levMedianYear)
    /\ PaceUnclamped(call.out)
    /\ PaceUnclamped(last.out)
    /\ call.out # last.out
    /\ call.out < PaceBaseOf(call)

\* ------------------------------------------------------------------
\* Progress disabled by the optimism slider (Spec)
\* ------------------------------------------------------------------
IsPaceCall == pc = "done" /\ call.fn = "getPaceOfAging"

\* A protocol-mode simulateCohort run with progress disabled
IsDisabledProtocolRun ==
    IsSimulating /\ call.isProtocol /\ call.optimism <= MinOptimism

\* C16: with optimism <= -10 getProgressMultiplier returns exactly 1.0,
\* getPaceOfAging returns frailtyMultiplier(score), and a protocol-mode
\* simulateCohort run has a strictly positive pace at every step and
\* returns isIndefinite = false
C16_DisabledProgress ==
    /\ (IsProgressCall /\ call.optimism <= MinOptimism) => call.out = ONE
    /\ (IsPaceCall /\ call.optimism <= MinOptimism) =>
          /\ call.out = getFrailtyMultiplier(call.score)
          /\ getProgressMultiplier(call.year, call.score, call.quantileKey, call.optimism,
                                   call.horizonYear, call.currentYear) = ONE
    /\ IsDisabledProtocolRun =>
          /\ \A i \in 1..Len(paceArray) : paceArray[i] > 0
          /\ pc = "done" => ret.isIndefinite = FALSE

\* C16: a progress multiplier asked for a year after currentYear and a
\* quantile other than the median, with progress disabled
C16_WitnessProgress ==
    /\ IsProgressCall
    /\ call.optimism <= MinOptimism
    /\ call.year > call.currentYear
    /\ call.horizonYear > call.currentYear
    /\ call.quantileKey = 95

\* C16: a pace asked for a year after round(levMedianYear), with progress
\* disabled
C16_WitnessPace ==
    /\ IsPaceCall
    /\ call.optimism < MinOptimism
    /\ call.year > RoundMilli(call.levMedianYear)

\* C16: a protocol-mode run with progress disabled that has returned, every
\* one of its steps having asked getPaceOfAging, and through it
\* getProgressMultiplier, for the pace of its year
C16_Witness ==
    /\ IsDisabledProtocolRun
    /\ pc = "done"
    /\ Len(paceArray) > 100

\* ------------------------------------------------------------------
\* The life-table lookup of simulateCohort (Spec)
\* ------------------------------------------------------------------
\* The table of the run
SimTable == LifeTables[call.lifeTable]

\* The table holds a qx entry under index idx
HasQx(idx) == idx + 1 \in DOMAIN SimTable.qx

\* The one-year death probability of the step that pushed entry n of the
\* sequences, had its base probability been qBase
StepQWith(n, qBase) ==
    LET year == call.currentYear + (n - 2)
        effectiveScore == effectiveScoreAt(year, call.startScore, call.targetScore,
                                           call.currentYear, call.isProtocol)
        mult == stepMult(year, effectiveScore, call, paceArray[n])
        hFinal == Mul(qToH(qBase), Max(Dec(5, 100), Min(Dec(25, 10), mult)))
    IN  Min(Dec(999, 1000), hToQ(hFinal))

\* C17: in every simulateCohort step the life-table index is within
\* 0..lastAge for every reachable biological age, negative or beyond the
\* last age; where the table holds an entry per age 0..lastAge the lookup
\* reads inside it; a missing qx entry counts as 0.99 in the loop and as
\* 0.001 for the initial annualSurvival entry
C17_TableIndexWithinTable ==
    IsSimulating =>
        /\ LET idx == tableIdx(SimTable, B)
           IN  /\ idx \in 0..lastAge(SimTable)
               /\ Len(SimTable.qx) = lastAge(SimTable) + 1 => HasQx(idx)
        /\ LET n == Len(annualSurvival)
           IN  (n >= 2 /\ ~HasQx(tableIdx(SimTable, bioAge[n - 1]))) =>
                   annualSurvival[n] = ONE - StepQWith(n, Dec(99, 100))
        /\ LET idx0 == Min(call.startAge, lastAge(SimTable))
           IN  /\ idx0 \in 0..lastAge(SimTable)
               /\ annualSurvival[1] = ONE - (IF HasQx(idx0) THEN SimTable.qx[idx0 + 1]
                                             ELSE Dec(1, 1000))

\* The biological age the latest step looked up in the table
LookedUpBioAge == bioAge[Len(bioAge) - 1]

\* C17: a step that looked up a negative biological age, reached by
\* sustained rejuvenation
C17_Witness ==
    /\ IsSimulating
    /\ Len(bioAge) >= 2
    /\ LookedUpBioAge < 0

\* C17: a step that looked up a biological age beyond the table's last age
C17_WitnessBeyond ==
    /\ IsSimulating
    /\ Len(bioAge) >= 2
    /\ LookedUpBioAge >= Fx(lastAge(SimTable) + 1)

\* C17: a step that found no qx entry under its index
C17_WitnessMissing ==
    /\ IsSimulating
    /\ Len(bioAge) >= 2
    /\ ~HasQx(tableIdx(SimTable, LookedUpBioAge))

\* ------------------------------------------------------------------
\* The value of calculateLevProb (SpecLev)
\* ------------------------------------------------------------------
\* 0.90 x the sum over i < min(len(probMass), len(refSurvival)) of
\* refSurvival[i] x probMass[i], for the arguments of the call
LevProbCapped ==
    LET probMass == computeLevDistribution(call.score, call.optimism,
                                           call.currentYear).probMass
        n == Min(Len(probMass), Len(call.refSurvival))
        terms == [i \in 1..n |-> Mul(call.refSurvival[i], probMass[i])]
    IN  Mul(SumSeq(terms), Dec(90, 100))

\* (score/20)^2 for a whole score
LevPenaltyFactor == Dec((call.score \div ONE) * (call.score \div ONE), 400)

\* C18: calculateLevProb returns 0.90 x the survival-weighted sum of the
\* probability mass for score >= 20, and that value multiplied by
\* (score/20)^2 for score < 20 (0.25 at score 10); the penalty multiplies
\* the capped value and is never applied for scores 20..99
C18_LevProbValue ==
    IsLevProbCall =>
        /\ call.score >= Fx(20) => call.out = LevProbCapped
        /\ call.score < Fx(20) => call.out = Mul(LevProbCapped, LevPenaltyFactor)
        /\ call.score = Fx(10) => LevPenaltyFactor = Dec(25, 100)

\* C18: a call for score 10 and a survival curve shorter than the window
\* that returned a quarter of a positive capped value
C18_Witness ==
    /\ IsLevProbCall
    /\ call.score = Fx(10)
    /\ Len(call.refSurvival) \in 1..120
    /\ LevProbCapped > 0
    /\ call.out = LevProbCapped \div 4

\* C18: a call for score 20, the first score without penalty, that
\* returned a positive value
C18_WitnessNoPenalty ==
    /\ IsLevProbCall
    /\ call.score = Fx(20)
    /\ call.out > 0

\* ------------------------------------------------------------------
\* The adoption-lag shift (SpecLev)
\* ------------------------------------------------------------------
\* With optimism 0 the speed factor is 1 and the median year is
\* currentYear + max(0, 2040 - currentYear) + shift: the shift of call c, in
\* thousandths of a year
ShiftMilli(c) ==
    c.out.medianYear - c.currentYear * 1000 - Max(0, LEV_MEDIAN_95 - c.currentYear) * 1000

\* A computeLevDistribution call whose median year shows the shift
ShowsShift == IsLevCall /\ call.optimism = 0

\* A call that repeats the previous one with the target score one higher
IsTargetScoreStep ==
    /\ ShowsShift
    /\ last.fn = "computeLevDistribution"
    /\ call.targetScore = last.targetScore + ONE

\* C19: the adoption-lag shift is 60 at targetScore 1, 15 at 50, 9 at 75
\* and 0 at every score >= 95; it is continuous at the band boundaries 50,
\* 75 and 95 (a millionth below the boundary it is within a thousandth of a
\* year of its value at the boundary); and it never rises when targetScore
\* rises by one
C19_ShiftPiecewiseLinear ==
    /\ ShowsShift =>
          /\ call.targetScore = Fx(1) => ShiftMilli(call) = 60 * 1000
          /\ call.targetScore = Fx(50) => ShiftMilli(call) = 15 * 1000
          /\ call.targetScore = Fx(75) => ShiftMilli(call) = 9 * 1000
          /\ call.targetScore >= Fx(95) => ShiftMilli(call) = 0
          /\ call.targetScore = Fx(50) - 1 => ShiftMilli(call) \in (15 * 1000)..(15 * 1000 + 1)
          /\ call.targetScore = Fx(75) - 1 => ShiftMilli(call) \in (9 * 1000)..(9 * 1000 + 1)
          /\ call.targetScore = Fx(95) - 1 => ShiftMilli(call) \in 0..1
          /\ ShiftMilli(call) \in 0..(60 * 1000)
    /\ IsTargetScoreStep => ShiftMilli(call) <= ShiftMilli(last)

\* C19: the step of the target score from 74 to 75, across a band boundary,
\* that shortened the shift
C19_Witness ==
    /\ IsTargetScoreStep
    /\ last.targetScore = Fx(74)
    /\ ShiftMilli(call) = 9 * 1000
    /\ ShiftMilli(last) > 9 * 1000

\* C19: a call with the target score a millionth below 50
C19_WitnessBoundary ==
    /\ ShowsShift
    /\ call.targetScore = Fx(50) - 1

\* ------------------------------------------------------------------
\* The effective score of a simulation step (Spec)
\* ------------------------------------------------------------------
\* startScore + (targetScore - startScore) x k/10 for k < 10 and targetScore
\* from k = 10 on in protocol mode, startScore otherwise
ExpectedScore(k) ==
    IF ~call.isProtocol THEN call.startScore
    ELSE IF k < 10 THEN call.startScore + ((call.targetScore - call.startScore) * k) \div 10
    ELSE call.targetScore

\* C20: in protocol mode the effective score of simulation step k is
\* startScore + (targetScore - startScore) x k/10 for 0 <= k < 10 and
\* targetScore for k >= 10; it is startScore at k = 0 and lies between
\* startScore and targetScore; in non-protocol mode it is startScore at
\* every step.  The pace the step pushed is the pace of that score.
C20_EffectiveScore ==
    IsSimulating =>
        /\ LET k == a - call.startAge
               es == effectiveScoreAt(call.currentYear + k, call.startScore,
                                      call.targetScore, call.currentYear, call.isProtocol)
           IN  /\ es = ExpectedScore(k)
               /\ es >= Min(call.startScore, call.targetScore)
               /\ es <= Max(call.startScore, call.targetScore)
               /\ k = 0 => es = call.startScore
        /\ LET n == Len(paceArray)
           IN  n >= 2 => paceArray[n] = stepPace(call.currentYear + (n - 2),
                                                  ExpectedScore(n - 2), call, levMedian)

\* C20: step 5 of a protocol-mode run from score 50 towards score 20, with
\* progress disabled, whose pace is the frailty multiplier of score 35
C20_Witness ==
    /\ IsSimulating
    /\ call.isProtocol
    /\ call.startScore = Fx(50)
    /\ call.targetScore = Fx(20)
    /\ call.optimism = MinOptimism
    /\ Len(paceArray) = 7
    /\ paceArray[7] = getFrailtyMultiplier(Fx(35))
    /\ paceArray[7] # getFrailtyMultiplier(Fx(20))

\* C20: step 10 of a protocol-mode run from score 1 towards score 99
C20_WitnessReached ==
    /\ IsSimulating
    /\ call.isProtocol
    /\ call.startScore = Fx(1)
    /\ call.targetScore = Fx(99)
    /\ Len(paceArray) = 12

\* ------------------------------------------------------------------
\* The current scenario (SpecRepeat)
\* ------------------------------------------------------------------
\* The arguments of a simulateCohort call other than targetScore and
\* progressQuantile
ScenarioArgs(c) == [k \in (DOMAIN c) \ {"out", "targetScore", "progressQuantile"} |-> c[k]]

\* A non-protocol simulateCohort run has returned, and the remembered call
\* is a non-protocol run with the same arguments but for targetScore and
\* progressQuantile
IsScenarioPair ==
    /\ pc = "done"
    /\ call.fn = "simulateCohort"
    /\ last.fn = "memo"
    /\ last.args.fn = "simulateCohort"
    /\ ~call.isProtocol
    /\ ScenarioArgs(call) = ScenarioArgs(last.args)

\* C21: with isProtocol = false the result of simulateCohort does not
\* depend on targetScore or progressQuantile: two non-protocol runs that
\* differ only in those two arguments return the same sequences and
\* summaries
C21_ScenarioIgnoresTarget ==
    IsScenarioPair => CallResult = last.result

\* C21: two non-protocol runs through the loop, in years of medical
\* progress, that differ in targetScore and in progressQuantile
C21_Witness ==
    /\ IsScenarioPair
    /\ call.targetScore # last.args.targetScore
    /\ call.progressQuantile # last.args.progressQuantile
    /\ call.optimism > MinOptimism
    /\ Len(paceArray) > 2
    /\ last.result.pace = paceArray

\* ------------------------------------------------------------------
\* Consistency of the result sequences (Spec)
\* ------------------------------------------------------------------
\* C22: the sequences of simulateCohort are consistent at every index
\* i >= 1, stated for the entries the latest step pushed: survival[i] =
\* survival[i-1] x annualSurvival[i], bioAge[i] = bioAge[i-1] + pace[i],
\* health[i] = bioAgeToHealth(bioAge[i]) and aliveHealthy[i] = survival[i] x
\* health[i]; at index 0 survival is 1, bioAge is startAge x
\* frailtyMultiplier(startScore), and pace[0] is not applied to bioAge
C22_SequencesConsistent ==
    IsSimulating =>
        /\ LET n == Len(survival)
           IN  n >= 2 =>
                   /\ survival[n] = Mul(survival[n - 1], annualSurvival[n])
                   /\ bioAge[n] = bioAge[n - 1] + paceArray[n]
                   /\ health[n] = bioAgeToHealth(bioAge[n])
                   /\ aliveHealthy[n] = Mul(survival[n], health[n])
        /\ survival[1] = ONE
        /\ bioAge[1] = call.startAge * getFrailtyMultiplier(call.startScore)
        /\ health[1] = bioAgeToHealth(bioAge[1])
        /\ aliveHealthy[1] = Mul(survival[1], health[1])
        /\ Len(bioAge) >= 2 => bioAge[2] = bioAge[1] + paceArray[2]

\* C22: a run some steps in, whose pace at index 0 differs from the pace
\* the first step applied, with survival falling and biological age moving
C22_Witness ==
    /\ IsSimulating
    /\ Len(survival) >= 12
    /\ paceArray[1] # paceArray[2]
    /\ survival[Len(survival)] < survival[Len(survival) - 1]
    /\ bioAge[Len(bioAge)] # bioAge[Len(bioAge) - 1]
    /\ aliveHealthy[Len(aliveHealthy)] > 0

\* ------------------------------------------------------------------
\* The expectancies (Spec)
\* ------------------------------------------------------------------
\* simulateCohort has returned
IsSimResult == pc = "done" /\ call.fn = "simulateCohort"

\* The indices (from 1) whose health is at least 0.70
HealthyIndices == {i \in 1..Len(health) : health[i] >= Dec(70, 100)}

\* survival[i] summed over the indices in HealthyIndices
HealthySurvival ==
    SumSeq(survival) - SumSeq([i \in 1..Len(survival) |->
                                  IF i \in HealthyIndices THEN 0 ELSE survival[i]])

\* C23: simulateCohort returns lifeExpectancy = (sum of all survival
\* entries) - 0.5 and healthExpectancy = (sum of survival[i] over exactly
\* the indices i with health[i] >= 0.70) - 0.5; the threshold is inclusive
\* and index 0 is part of both sums
C23_Expectancies ==
    IsSimResult =>
        /\ ret.lifeExpectancy = SumSeq(survival) - Dec(5, 10)
        /\ ret.healthExpectancy = HealthySurvival - Dec(5, 10)
        /\ healthyYears(ONE, Dec(70, 100)) = ONE
        /\ healthyYears(ONE, Dec(70, 100) - 1) = 0

\* C23: a finished run that starts healthy (index 0 counts in both sums)
\* and ends with years below the threshold, so the two expectancies differ
C23_Witness ==
    /\ IsSimResult
    /\ 1 \in HealthyIndices
    /\ Len(health) \notin HealthyIndices
    /\ survival[Len(survival)] > 0
    /\ ret.healthExpectancy >= Dec(5, 10)
    /\ ret.healthExpectancy < ret.lifeExpectancy

\* ------------------------------------------------------------------
\* The indefinite flag (Spec)
\* ------------------------------------------------------------------
\* The last entry of the pace sequence is below -0.10
LastPaceNegative == paceArray[Len(paceArray)] < 0 - Dec(1, 10)

\* The last entry of the survival sequence is above 0.01
LastSurvivalHigh == survival[Len(survival)] > Dec(1, 100)

\* C24: simulateCohort sets isIndefinite to true exactly when isProtocol is
\* true, the last pace is < -0.10 and the last survival is > 0.01; it is
\* false for every non-protocol run
C24_IndefiniteFlag ==
    IsSimResult =>
        /\ ret.isIndefinite = (call.isProtocol /\ LastPaceNegative /\ LastSurvivalHigh)
        /\ ~call.isProtocol => ret.isIndefinite = FALSE

\* C24: a protocol-mode run over the full span that returned isIndefinite
\* = true
C24_Witness ==
    /\ IsSimResult
    /\ ret.isIndefinite = TRUE
    /\ Len(paceArray) > 100

\* C24: a protocol-mode run whose last pace is below -0.10 but whose
\* survival has fallen to 0.01 or less, and that returned false
C24_WitnessLowSurvival ==
    /\ IsSimResult
    /\ call.isProtocol
    /\ LastPaceNegative
    /\ ~LastSurvivalHigh
    /\ ret.isIndefinite = FALSE

\* ------------------------------------------------------------------
\* The window of medical progress (SpecProgress)
\* ------------------------------------------------------------------
\* What getProgressMultiplier returns for the horizon year, the other
\* arguments being those of the call
ProgressAtHorizon ==
    getProgressMultiplier(call.horizonYear, call.score, call.quantileKey, call.optimism,
                          call.horizonYear, call.currentYear)

\* C25: getProgressMultiplier returns exactly 1.0 for every year <=
\* currentYear, and for every year when horizonYear <= currentYear; for
\* every year >= horizonYear it returns what it returns for year =
\* horizonYear, all other arguments fixed
C25_ProgressFrozenOutsideWindow ==
    IsProgressCall =>
        /\ call.year <= call.currentYear => call.out = ONE
        /\ call.horizonYear <= call.currentYear => call.out = ONE
        /\ call.year >= call.horizonYear => call.out = ProgressAtHorizon

\* C25: a call for a year after a horizon that lies after currentYear,
\* with progress enabled, returning the value of the horizon year, which
\* is not 1.0
C25_Witness ==
    /\ IsProgressCall
    /\ call.horizonYear > call.currentYear
    /\ call.year > call.horizonYear
    /\ call.optimism > MinOptimism
    /\ call.out = ProgressAtHorizon
    /\ call.out # ONE
    /\ call.out > Dec(1, 100)

\* C25: a call for a year after currentYear with the horizon before it
C25_WitnessPastHorizon ==
    /\ IsProgressCall
    /\ call.horizonYear < call.currentYear
    /\ call.year > call.currentYear
    /\ call.optimism > MinOptimism
    /\ call.quantileKey = 95

\* ------------------------------------------------------------------
\* No rejuvenation before the LEV year (Spec)
\* ------------------------------------------------------------------
\* The calendar year of the step that pushed the latest entries
LatestStepYear == call.currentYear + (Len(bioAge) - 2)

\* C26: for every year before round(levMedianYear), and at that year
\* itself, getPaceOfAging applies no pull (it returns the clamped
\* frailtyMultiplier(score) x r_q(year)) and returns a strictly positive
\* pace; so in a protocol-mode simulateCohort run bioAge strictly increases
\* at every step whose year is not after round(medianYear)
C26_NoPullBeforeLev ==
    /\ (IsPaceCall /\ call.year <= RoundMilli(call.levMedianYear)) =>
          /\ call.out = paceClamp(PaceBaseOf(call))
          /\ call.out > 0
    /\ (/\ IsSimulating /\ call.isProtocol /\ Len(bioAge) >= 2
        /\ LatestStepYear <= RoundMilli(levMedian)) =>
          /\ paceArray[Len(paceArray)] > 0
          /\ bioAge[Len(bioAge)] > bioAge[Len(bioAge) - 1]

\* C26: the step of a protocol-mode run, progress enabled, in the LEV year
\* itself, which still raised the biological age, after 15 steps or more
C26_Witness ==
    /\ IsSimulating
    /\ call.isProtocol
    /\ call.optimism > MinOptimism
    /\ Len(bioAge) >= 17
    /\ LatestStepYear = RoundMilli(levMedian)
    /\ bioAge[Len(bioAge)] > bioAge[Len(bioAge) - 1]

\* C26: a pace asked for the year before round(levMedianYear), progress
\* enabled
C26_WitnessPace ==
    /\ IsPaceCall
    /\ call.optimism > MinOptimism
    /\ call.year = RoundMilli(call.levMedianYear) - 1
    /\ call.out > 0

\* ------------------------------------------------------------------
\* The hazard clamp and the death probability cap (Spec)
\* ------------------------------------------------------------------
\* The base hazard of the step that pushed the latest entries
LatestBaseHazard ==
    qToH(qxAt(SimTable, tableIdx(SimTable, LookedUpBioAge), Dec(99, 100)))

\* The one-year death probability of the step that pushed the latest
\* entries
LatestQFinal == ONE - annualSurvival[Len(annualSurvival)]

\* min(0.999, hToQ(h0 x m))
QFinalFor(h0, m) == Min(Dec(999, 1000), hToQ(Mul(h0, m)))

\* C27 (as the code has it): in every simulateCohort step the hazard
\* multiplier applied lies in [0.05, 2.5] (the death probability lies
\* between those of the base hazard times 0.05 and times 2.5), the death
\* probability is at most 0.999, and annualSurvival[i] lies in [0.001, 1]
\* for i >= 1; the survival entries are never negative
C27_HazardClamp ==
    (IsSimulating /\ Len(annualSurvival) >= 2) =>
        /\ LatestQFinal >= QFinalFor(LatestBaseHazard, Dec(5, 100))
        /\ LatestQFinal <= QFinalFor(LatestBaseHazard, Dec(25, 10))
        /\ LatestQFinal <= Dec(999, 1000)
        /\ annualSurvival[Len(annualSurvival)] >= Dec(1, 1000)
        /\ annualSurvival[Len(annualSurvival)] <= ONE
        /\ survival[Len(survival)] >= 0

\* C27: a protocol-mode step with a negative pace whose multiplier, after
\* the exp(2.0 x pace) suppression, was raised to 0.05 by the clamp
C27_Witness ==
    /\ IsSimulating
    /\ Len(annualSurvival) >= 2
    /\ call.isProtocol
    /\ paceArray[Len(paceArray)] < 0
    /\ LatestBaseHazard > Dec(1, 10)
    /\ LatestQFinal = QFinalFor(LatestBaseHazard, Dec(5, 100))
    /\ LatestQFinal > 0

\* C27 (as stated): no survival entry is ever exactly 0
C27_AsStated ==
    IsSimResult => ~survivalUnderflows(Len(survival))

\* ------------------------------------------------------------------
\* The embedded life tables (SpecHazard)
\* ------------------------------------------------------------------
IsEmbedCall == pc = "done" /\ call.fn = "embedSampleData"

\* C28: for either sex embedSampleData returns a table whose ages are the
\* consecutive integers 0..150 in order (ages[i] = i), whose qx has the same
\* length 151 with every value in (0, 0.999], and whose extrapolated values
\* for ages 111..150 continue upward from the value at age 110
C28_EmbeddedTableShape ==
    IsEmbedCall =>
        /\ Len(call.out.ages) = 151
        /\ Len(call.out.qx) = 151
        /\ \A i \in 0..150 : call.out.ages[i + 1] = i
        /\ \A i \in 0..150 : call.out.qx[i + 1] > 0 /\ call.out.qx[i + 1] <= Dec(999, 1000)
        /\ call.out.qx[111 + 1] > call.out.qx[110 + 1]
        /\ \A i \in 111..149 : call.out.qx[i + 1 + 1] >= call.out.qx[i + 1]

\* C28: the male table, 0.50 at age 110 as in the sample and at the cap
\* of 0.999 at age 150
C28_Witness ==
    /\ IsEmbedCall
    /\ call.sex = "male"
    /\ call.out.qx[110 + 1] = Dec(50, 100)
    /\ call.out.qx[120 + 1] < Dec(999, 1000)
    /\ call.out.qx[150 + 1] = Dec(999, 1000)

\* ------------------------------------------------------------------
\* Bounds of the expectancies (Spec)
\* ------------------------------------------------------------------
\* C29: for every simulateCohort result healthExpectancy <=
\* lifeExpectancy, lifeExpectancy >= 0.5 and healthExpectancy >= -0.5; it
\* is exactly -0.5 when no index has health >= 0.70
C29_ExpectancyBounds ==
    IsSimResult =>
        /\ ret.healthExpectancy <= ret.lifeExpectancy
        /\ ret.lifeExpectancy >= Dec(5, 10)
        /\ ret.healthExpectancy >= 0 - Dec(5, 10)
        /\ HealthyIndices = {} => ret.healthExpectancy = 0 - Dec(5, 10)

\* C29: a run that starts with the biological age past the healthspan
\* threshold and goes through the loop: no index is healthy, and
\* healthExpectancy is -0.5 while lifeExpectancy is above 0.5
C29_Witness ==
    /\ IsSimResult
    /\ Len(health) >= 2
    /\ HealthyIndices = {}
    /\ ret.healthExpectancy = 0 - Dec(5, 10)
    /\ ret.lifeExpectancy > Dec(5, 10)


\* ------------------------------------------------------------------
\* The timeline of the page (part_000): scrubYear, isPlaying, the
\* animation loop, the play button and the scrubber
\* ------------------------------------------------------------------
\* lines 113 and 547: the timeline covers a hundred years
ScrubSpan == 100

ScrubYears == UiCurrentYear..(UiCurrentYear + ScrubSpan)

\* a tick that always advances
tickYear_noWrap(y, currentYear) == y + 1

\* lines 112-118: the updater passed to setScrubYear
tickYear(y, currentYear) == IF y >= currentYear + ScrubSpan THEN currentYear ELSE y + 1

\* lines 105-121: a frame of the loop at least TICK_MS after the last tick.
\* The effect (lines 101-127) runs again on every change of isPlaying: its
\* cleanup cancels the pending frame and a new loop is requested only when
\* isPlaying is true, so a frame finds the loop alive exactly while
\* isPlaying.  A frame less than TICK_MS after the last tick changes
\* nothing.  call records the handler that ran last and what it saw.
AnimationTick ==
    /\ pc = "idle"
    /\ isPlaying
    /\ scrubYear' = tickYear(scrubYear, UiCurrentYear)
    /\ isPlaying' = IF scrubYear >= UiCurrentYear + ScrubSpan THEN FALSE ELSE isPlaying
    /\ call' = [fn |-> "tick", y |-> scrubYear, wasPlaying |-> isPlaying]
    /\ UNCHANGED <<pc, last, simLocals>>

\* line 536: onClick={() => setIsPlaying(!isPlaying)}
TogglePlay ==
    /\ pc = "idle"
    /\ isPlaying' = ~isPlaying
    /\ call' = [fn |-> "toggle", y |-> scrubYear, wasPlaying |-> isPlaying]
    /\ UNCHANGED <<pc, last, simLocals, scrubYear>>

\* lines 545-551: the range input hands over a year between its min and
\* max; the handler stores it and pauses
MoveScrubber ==
    /\ pc = "idle"
    /\ \E value \in ScrubYears :
           /\ scrubYear' = value
           /\ call' = [fn |-> "scrub", y |-> scrubYear, wasPlaying |-> isPlaying,
                       value |-> value]
    /\ isPlaying' = FALSE
    /\ UNCHANGED <<pc, last, simLocals>>

NextUI == AnimationTick \/ TogglePlay \/ MoveScrubber

SpecUI == Init /\ [][NextUI]_vars

\* lines 290 and 294: the age and the array index shown for scrubYear
scrubIndex == Max(0, scrubYear - UiCurrentYear)

C30_WitnessScrub == call.fn = "scrub" /\ call.wasPlaying /\ scrubYear = UiCurrentYear + ScrubSpan

\* an ordinary tick
C30_WitnessAdvance == call.fn = "tick" /\ isPlaying /\ scrubYear = UiCurrentYear + ScrubSpan

=============================================================================
